---- MODULE Spec2Model ----
(***************************************************************************)
(* Model of darts/models/forecasting/tft_copy.py: the TFT module's shape   *)
(* and masking logic (_TFTModule) and the autoregressive rollout           *)
(* (TFTModel._get_batch_prediction).                                       *)
(*                                                                         *)
(* A tensor is a record (batch, width, rows): rows is the time axis, each  *)
(* row a sequence of cells, one per feature column.  A cell names where a  *)
(* value comes from: its kind (target, past_cov, fut_cov, pred), the time  *)
(* offset t relative to the forecast origin (history is -icl..-1, the      *)
(* horizon is 0..), its column c and, for a sampled prediction, the seed s *)
(* it was drawn with.                                                      *)
(***************************************************************************)
EXTENDS Integers, Sequences, FiniteSets, TLC

\* ---------------------------------------------------------------- bounds
MaxIcl == 2
MaxOcl == 3
MaxN == 7
MaxBatch == 2
MaxTargets == 2
MaxCovs == 1
MaxEncLen == 3
MaxDecLen == 3
MaxMaskBatch == 2

\* ------------------------------------------------------ program constants
NumQuantiles == 7
p50_index == 3
first_prediction_index == 0
hidden_size == 16

\* ---------------------------------------------------------------- helpers
Min2(a, b) == IF a < b THEN a ELSE b
Max2(a, b) == IF a > b THEN a ELSE b

RECURSIVE SeqMax(_)
SeqMax(s) == IF Len(s) = 1 THEN s[1] ELSE Max2(s[1], SeqMax(Tail(s)))

RECURSIVE SumLen(_)
SumLen(ts) == IF ts = <<>> THEN 0 ELSE Len(ts[1].rows) + SumLen(Tail(ts))

RECURSIVE Flatten(_)
Flatten(ss) == IF ss = <<>> THEN <<>> ELSE ss[1] \o Flatten(Tail(ss))

CeilDiv(a, b) == (a + b - 1) \div b

\* Python's normalisation of a slice bound i against a length L.
Norm(i, L) == IF i < 0 THEN Max2(i + L, 0) ELSE Min2(i, L)

\* s[a:b] on a sequence (0-based, Python semantics, negative bounds count
\* from the end, an empty or inverted range yields the empty sequence).
PySlice(s, a, b) ==
    LET lo == Norm(a, Len(s))
        hi == Norm(b, Len(s))
    IN  IF hi <= lo THEN <<>> ELSE SubSeq(s, lo + 1, hi)

\* ----------------------------------------------------------------- tensors
Tensor(b, w, rows) ==
    [kind |-> "tensor", b |-> b, w |-> w, rows |-> rows, items |-> <<>>, err |-> ""]

NoneT == [kind |-> "None", b |-> 0, w |-> 0, rows |-> <<>>, items |-> <<>>, err |-> ""]

Raise(e) == [kind |-> "raise", b |-> 0, w |-> 0, rows |-> <<>>, items |-> <<>>, err |-> e]

TensorList(ts) ==
    [kind |-> "list", b |-> 0, w |-> 0, rows |-> <<>>, items |-> ts, err |-> ""]

\* The exception already raised while computing x, or a new one.
Fail(x, e) == IF x.kind = "raise" THEN x ELSE Raise(e)

IsTensor(x) == x.kind = "tensor"
IsNone(x) == x.kind = "None"
IsRaise(x) == x.kind = "raise"
IsList(x) == x.kind = "list"

TimeLen(x) == Len(x.rows)
Shape(x) == <<x.b, Len(x.rows), x.w>>

Cell(k, t, c, s) == [k |-> k, t |-> t, c |-> c, s |-> s]

\* A data tensor of kind k: batch b, w columns, time offsets from .. to.
Data(k, b, w, from, to) ==
    Tensor(b, w, [i \in 1..(to - from + 1) |->
                     [c \in 1..w |-> Cell(k, from + i - 1, c - 1, 0)]])

\* x[:, a:b, :]
SliceTime(x, a, b) ==
    IF ~IsTensor(x) THEN Fail(x, "TypeError")
    ELSE Tensor(x.b, x.w, PySlice(x.rows, a, b))

\* x[:, :b, :]
SliceTimeTo(x, b) == SliceTime(x, 0, b)

\* x[:, a:, :]
SliceTimeFrom(x, a) ==
    IF ~IsTensor(x) THEN Fail(x, "TypeError")
    ELSE SliceTime(x, a, Len(x.rows))

\* x[:, :, a:b]
SliceCols(x, a, b) ==
    IF ~IsTensor(x) THEN Fail(x, "TypeError")
    ELSE LET lo == Norm(a, x.w)
             hi == Norm(b, x.w)
             w  == IF hi <= lo THEN 0 ELSE hi - lo
         IN  Tensor(x.b, w, [i \in 1..Len(x.rows) |-> PySlice(x.rows[i], a, b)])

\* x[:, :, i].unsqueeze(dim=2)
SelectCol(x, i) ==
    IF ~IsTensor(x) THEN Fail(x, "TypeError")
    ELSE IF i >= x.w THEN Raise("IndexError")
    ELSE Tensor(x.b, 1, [r \in 1..Len(x.rows) |-> <<x.rows[r][i + 1]>>])

\* torch.cat(ts, dim=2): the tensors of ts side by side along the feature axis.
RECURSIVE CatCols(_)
CatCols(ts) ==
    IF ts = <<>> THEN Raise("RuntimeError: cat of an empty list")
    ELSE IF Len(ts) = 1 THEN ts[1]
    ELSE LET rest == CatCols(Tail(ts))
             x == ts[1]
         IN  IF IsRaise(rest) THEN rest
             ELSE IF ~IsTensor(x) THEN Fail(x, "TypeError")
             ELSE IF x.b # rest.b \/ Len(x.rows) # Len(rest.rows)
                  THEN Raise("RuntimeError: sizes of tensors must match")
             ELSE Tensor(x.b, x.w + rest.w,
                         [i \in 1..Len(x.rows) |-> x.rows[i] \o rest.rows[i]])

\* torch.cat(ts, dim=1): the tensors of ts one after the other along time.
RECURSIVE CatTime(_)
CatTime(ts) ==
    IF ts = <<>> THEN Raise("RuntimeError: cat of an empty list")
    ELSE IF Len(ts) = 1 THEN ts[1]
    ELSE LET rest == CatTime(Tail(ts))
             x == ts[1]
         IN  IF IsRaise(rest) THEN rest
             ELSE IF ~IsTensor(x) THEN Fail(x, "TypeError")
             ELSE IF x.b # rest.b \/ x.w # rest.w
                  THEN Raise("RuntimeError: sizes of tensors must match")
             ELSE Tensor(x.b, x.w, x.rows \o rest.rows)

\* Variant: a None entry is not skipped.
NotNone_kept(ts) == ts

\* The non-None members of a list of optional tensors, in order.
RECURSIVE NotNone(_)
NotNone(ts) ==
    IF ts = <<>> THEN <<>>
    ELSE IF IsNone(ts[1]) THEN NotNone(Tail(ts))
    ELSE <<ts[1]>> \o NotNone(Tail(ts))

\* Variant: the rows are left where they are.
Roll_unmoved(x, shift) == x

\* torch.roll(x, shift, 1): row i of the result is row (i - shift) mod L of x.
Roll(x, shift) ==
    LET L == Len(x.rows)
    IN  IF L = 0 THEN x
        ELSE Tensor(x.b, x.w, [i \in 1..L |-> x.rows[((i - 1 - shift) % L) + 1]])

\* x[:, r0:, c0:c1] = v, with torch's broadcasting of v over the region; the
\* assignment raises when a dimension of v is neither the region's nor 1.
SetBlock(x, r0, c0, c1, v) ==
    IF ~IsTensor(x) THEN Fail(x, "TypeError")
    ELSE IF ~IsTensor(v) THEN Fail(v, "TypeError")
    ELSE LET L   == Len(x.rows)
             rlo == Norm(r0, L)
             R   == L - rlo
             clo == Norm(c0, x.w)
             chi == Norm(c1, x.w)
             W   == IF chi <= clo THEN 0 ELSE chi - clo
             VR  == Len(v.rows)
         IN  IF ~(v.b \in {x.b, 1}) \/ ~(VR \in {R, 1}) \/ ~(v.w \in {W, 1})
             THEN Raise("RuntimeError: shape mismatch")
             ELSE Tensor(x.b, x.w,
                    [i \in 1..L |->
                       [c \in 1..x.w |->
                          IF i > rlo /\ c > clo /\ c <= clo + W
                          THEN v.rows[IF VR = 1 THEN 1 ELSE i - rlo]
                                     [IF v.w = 1 THEN 1 ELSE c - clo]
                          ELSE x.rows[i][c]]])

\* ------------------------------------------------------------------- masks
\* create_mask(size, lengths, inverse): one row per entry of lengths.
create_mask(size, lengths, inverse) ==
    [i \in 1..Len(lengths) |->
        [j \in 1..size |->
            IF inverse THEN (j - 1) < lengths[i] ELSE (j - 1) >= lengths[i]]]

\* Variant: a step attends to itself.
decoder_mask_strict(decoder_length) ==
    [q \in 1..decoder_length |-> [k \in 1..decoder_length |-> (k - 1) > (q - 1)]]

\* decoder_mask = attend_step >= predict_step
decoder_mask(decoder_length) ==
    [q \in 1..decoder_length |-> [k \in 1..decoder_length |-> (k - 1) >= (q - 1)]]

\* get_attention_mask(encoder_lengths, decoder_length): mask[b][q] is the
\* encoder mask of sample b followed by the decoder mask of query step q.
get_attention_mask(encoder_lengths, decoder_length) ==
    LET encoder_mask == create_mask(SeqMax(encoder_lengths), encoder_lengths, FALSE)
        dmask == decoder_mask(decoder_length)
    IN  [b \in 1..Len(encoder_lengths) |->
            [q \in 1..decoder_length |-> encoder_mask[b] \o dmask[q]]]

\* -------------------------------------------------------- _TFTModule.__init__
\* An output_size argument is an int or a list of ints.
OSInt(k) == [islist |-> FALSE, n |-> k, sizes |-> <<>>]
OSList(s) == [islist |-> TRUE, n |-> 0, sizes |-> s]

\* Variant: duplicates are kept.
Dedupe_kept(s) == s

\* list(dict.fromkeys(s)): duplicates removed, first-seen order kept.
RECURSIVE Dedupe(_)
Dedupe(s) ==
    IF s = <<>> THEN <<>>
    ELSE LET init == Dedupe(SubSeq(s, 1, Len(s) - 1))
             x == s[Len(s)]
         IN  IF \E i \in 1..Len(init) : init[i] = x THEN init ELSE Append(init, x)

Names(s) == {s[i] : i \in 1..Len(s)}

\* The output heads (lines 257-262): one nn.Linear per entry of output_size
\* when n_targets > 1, which iterates output_size; a single nn.Linear else.
output_layer(n_targets, output_size) ==
    IF n_targets > 1
    THEN IF output_size.islist
         THEN [ok |-> TRUE, islist |-> TRUE, heads |-> output_size.sizes]
         ELSE [ok |-> FALSE, islist |-> TRUE, heads |-> <<>>]
    ELSE IF output_size.islist
         THEN [ok |-> FALSE, islist |-> FALSE, heads |-> <<>>]
         ELSE [ok |-> TRUE, islist |-> FALSE, heads |-> <<output_size.n>>]

\* A ModuleDict as the sequence of its entries in insertion order; an entry
\* is a name and the network instance made for it, named by the loop and
\* the position that made it.
MapHas(map, name) == \E i \in 1..Len(map) : map[i].name = name
MapPut(map, name, instance) ==
    IF MapHas(map, name)
    THEN [i \in 1..Len(map) |->
             IF map[i].name = name THEN [name |-> name, instance |-> instance]
             ELSE map[i]]
    ELSE Append(map, [name |-> name, instance |-> instance])

\* Lines 145-151: one network per encoder name.
RECURSIVE encoder_grns(_, _)
encoder_grns(enc, k) ==
    IF k = 0 THEN <<>>
    ELSE MapPut(encoder_grns(enc, k - 1), enc[k], <<"encoder", k>>)

\* Variant: a decoder name replaces the network already there.
RECURSIVE shared_grns_replaced(_, _, _)
shared_grns_replaced(enc, dec, k) ==
    IF k = 0 THEN encoder_grns(enc, Len(enc))
    ELSE MapPut(shared_grns_replaced(enc, dec, k - 1), dec[k], <<"decoder", k>>)

\* Lines 143-160: the shared map after the encoder loop and the first k
\* decoder names: a decoder name gets a network only if it has none.
RECURSIVE shared_grns(_, _, _)
shared_grns(enc, dec, k) ==
    IF k = 0 THEN encoder_grns(enc, Len(enc))
    ELSE LET map == shared_grns(enc, dec, k - 1)
         IN  IF MapHas(map, dec[k]) THEN map
             ELSE MapPut(map, dec[k], <<"decoder", k>>)

\* The module built by _TFTModule.__init__, or a module whose construction
\* raised (raised = TRUE).
TFTModule(variables, input_dim, output_dim, output_size, input_chunk_length, output_chunk_length, share_single_variable_networks) ==
    LET enc == variables.time_varying_encoder_input
        dec == variables.time_varying_decoder_input
        layer == output_layer(output_dim, output_size)
    IN  [raised |-> ~layer.ok,
         variables |-> variables,
         input_dim |-> input_dim,
         output_dim |-> output_dim,
         n_targets |-> output_dim,
         output_size |-> output_size,
         input_chunk_length |-> input_chunk_length,
         output_chunk_length |-> output_chunk_length,
         share_single_variable_networks |-> share_single_variable_networks,
         prescalers |-> variables.reals_input,
         shared_single_variable_grns |->
             IF share_single_variable_networks
             THEN shared_grns(enc, dec, Len(dec)) ELSE <<>>,
         encoder_variable_selection |->
             [input_sizes |-> enc,
              single_variable_grns |->
                  IF share_single_variable_networks
                  THEN shared_grns(enc, dec, Len(dec)) ELSE <<>>],
         decoder_variable_selection |->
             [input_sizes |-> dec,
              single_variable_grns |->
                  IF share_single_variable_networks
                  THEN shared_grns(enc, dec, Len(dec)) ELSE <<>>],
         output_layer |-> layer]

NoModule ==
    [raised |-> FALSE,
     variables |-> [reals_input |-> <<>>, time_varying_encoder_input |-> <<>>,
                    time_varying_decoder_input |-> <<>>, static_input |-> <<>>],
     input_dim |-> 0, output_dim |-> 0, n_targets |-> 0, output_size |-> OSInt(0),
     input_chunk_length |-> 0, output_chunk_length |-> 0,
     share_single_variable_networks |-> FALSE,
     prescalers |-> <<>>, shared_single_variable_grns |-> <<>>,
     encoder_variable_selection |-> [input_sizes |-> <<>>, single_variable_grns |-> <<>>],
     decoder_variable_selection |-> [input_sizes |-> <<>>, single_variable_grns |-> <<>>],
     output_layer |-> [ok |-> FALSE, islist |-> FALSE, heads |-> <<>>]]

\* ------------------------------------------------------- _TFTModule.forward
\* Whether the layers behind forward (variable selection, LSTM, attention:
\* not in this file) accept a window of T time steps where the module was
\* built for `chunk` steps. A window of the built length is accepted; for
\* any other length a call may be rejected with a dimension mismatch
\* (strict) or go through and yield one row per decoder step it was given.
WindowAccepted(T, chunk, strict) == T = chunk \/ ~strict

\* Variant: the head misses the last decoder step.
HeadRows_short(x_cont_future, width) ==
    [i \in 1..(Len(x_cont_future.rows) - 1) |->
        [c \in 1..width |-> Cell("pred", x_cont_future.rows[i][1].t, c - 1, 0)]]

\* The rows a head of the given width yields for the decoder steps of the
\* future block: one row per decoder step, forecasting that step's time.
HeadRows(x_cont_future, width) ==
    [i \in 1..Len(x_cont_future.rows) |->
        [c \in 1..width |-> Cell("pred", x_cont_future.rows[i][1].t, c - 1, 0)]]

\* Line 366: static_covariates = None.
static_covariates == NoneT

\* Lines 364-417: the past and future blocks are concatenated and one column
\* of them is picked per variable name; NoneT when nothing raised.
forward_prepare(m, x) ==
    LET past_target == x[1]
        past_covariates == x[2]
        historic_future_covariates == x[3]
        future_covariates == x[4]
        x_cont_past ==
            CatCols(NotNone(<<past_target, past_covariates,
                              historic_future_covariates, static_covariates>>))
        x_cont_future == CatCols(NotNone(<<future_covariates, static_covariates>>))
        encoder_variables == m.variables.time_varying_encoder_input
        decoder_variables == m.variables.time_varying_decoder_input
    IN  IF ~IsTensor(x_cont_past) THEN Fail(x_cont_past, "TypeError")
        ELSE IF ~IsTensor(x_cont_future) THEN Fail(x_cont_future, "TypeError")
        ELSE IF ~IsTensor(past_target) THEN Raise("AttributeError: past_target is None")
        ELSE IF Len(encoder_variables) > x_cont_past.w
                \/ Len(decoder_variables) > x_cont_future.w
             THEN Raise("IndexError")
        ELSE NoneT

\* Variant: the columns are picked from the right end of the block.
split_columns_reversed(names, x_cont) ==
    [idx \in 1..Len(names) |->
        [name |-> names[idx], vector |-> SelectCol(x_cont, x_cont.w - idx)]]

\* {name: x_cont[..., idx].unsqueeze(-1) for idx, name in enumerate(names)}
\* (lines 410-417), as the sequence of the dict's entries in insertion order.
split_columns(names, x_cont) ==
    [idx \in 1..Len(names) |->
        [name |-> names[idx], vector |-> SelectCol(x_cont, idx - 1)]]

\* Lines 368-378 and 410-417: input_vectors_past and input_vectors_future.
input_vectors(m, x) ==
    [past |-> split_columns(m.variables.time_varying_encoder_input,
                            CatCols(NotNone(<<x[1], x[2], x[3], static_covariates>>))),
     future |-> split_columns(m.variables.time_varying_decoder_input,
                              CatCols(NotNone(<<x[4], static_covariates>>)))]

\* Lines 422-431: with static covariates the branch is `pass` and leaves
\* static_embedding unassigned; without them it is zeros (batch, hidden_size).
static_embedding(m, x) ==
    IF ~IsNone(static_covariates)
    THEN Raise("UnboundLocalError: static_embedding")
    ELSE [kind |-> "zeros", shape |-> <<x[1].b, hidden_size>>]

forward(m, x, strict) ==
    LET x_cont_past == CatCols(NotNone(<<x[1], x[2], x[3], static_covariates>>))
        x_cont_future == CatCols(NotNone(<<x[4], static_covariates>>))
        prepared == forward_prepare(m, x)
    IN  IF IsRaise(prepared) THEN prepared
        ELSE IF IsRaise(static_embedding(m, x)) THEN static_embedding(m, x)
        ELSE IF x_cont_future.w = 0 \/ x_cont_future.b # x_cont_past.b
             THEN Raise("RuntimeError: shape mismatch")
        ELSE IF ~WindowAccepted(Len(x_cont_past.rows), m.input_chunk_length, strict)
                \/ ~WindowAccepted(Len(x_cont_future.rows), m.output_chunk_length, strict)
             THEN Raise("RuntimeError: dimension mismatch")
        ELSE IF m.n_targets > 1
             THEN TensorList([h \in 1..Len(m.output_layer.heads) |->
                     Tensor(x_cont_past.b, m.output_layer.heads[h],
                            HeadRows(x_cont_future, m.output_layer.heads[h]))])
             ELSE Tensor(x_cont_past.b, m.output_layer.heads[1],
                         HeadRows(x_cont_future, m.output_layer.heads[1]))

\* Variant: the names are returned.
categoricals_listed(m) == TensorList(<<>>)

\* The categoricals property (lines 269-279).
categoricals(m) == Raise("NotImplementedError")

\* ------------------------------------------------------- TFTModel.__init__
\* The output_size argument is <<>> for None and <<k>> for the int k.

\* Variant: no guard.
init_raises_never(loss_fn, output_size) == FALSE

\* The two raise_if guards of lines 942-944.
init_raises(loss_fn, output_size) ==
    /\ output_size # <<>>
    /\ \/ (loss_fn = "QuantileLoss" /\ output_size[1] # NumQuantiles)
       \/ (loss_fn # "QuantileLoss" /\ output_size[1] # 1)

init_output_size(loss_fn, output_size) ==
    IF output_size # <<>> THEN output_size[1]
    ELSE IF loss_fn = "QuantileLoss" THEN NumQuantiles ELSE 1

\* ----------------------------------------------------- TFTModel._create_model
\* f'{var_name}_{i}' for i in range(width)
VarNames(var_name, tensor) == [i \in 1..tensor.w |-> <<var_name, i - 1>>]

type_names ==
    <<"past_target", "past_covariate", "historic_future_covariate",
      "future_covariate", "future_target", "static_covariate">>

variable_names ==
    <<"target", "past_covariate", "future_covariate",
      "future_covariate", "target", "static_covariate">>

\* Variant: the sample comes with one static covariate.
SampleTensors_static(train_sample) == train_sample \o <<Data("static", 1, 1, 0, 0)>>

\* train_sample is <<past_target, past_covariate, historic_future_covariate,
\* future_covariate, future_target>>; static_covariates = None.
SampleTensors(train_sample) == train_sample \o <<NoneT>>

\* The names collected by the loop of lines 1027-1036 for the given roles.
RECURSIVE Collect(_, _, _)
Collect(tensors, roles, i) ==
    IF i > Len(type_names) THEN <<>>
    ELSE (IF ~IsNone(tensors[i]) /\ type_names[i] \in roles
          THEN VarNames(variable_names[i], tensors[i]) ELSE <<>>)
         \o Collect(tensors, roles, i + 1)

\* Variant: the historic future covariates are left out of the encoder group.
model_config_no_historic(train_sample) ==
    LET tensors == SampleTensors(train_sample)
    IN  [reals_input |-> Dedupe(Collect(tensors, Names(type_names), 1)),
         time_varying_encoder_input |->
             Dedupe(Collect(tensors, {"past_target", "past_covariate"}, 1)),
         time_varying_decoder_input |-> Dedupe(Collect(tensors, {"future_covariate"}, 1)),
         static_input |-> Dedupe(Collect(tensors, {"static_covariate"}, 1))]

\* Lines 1022-1041: the four variable groups.
model_config(train_sample) ==
    LET tensors == SampleTensors(train_sample)
    IN  [reals_input |-> Dedupe(Collect(tensors, Names(type_names), 1)),
         time_varying_encoder_input |->
             Dedupe(Collect(tensors,
                 {"past_target", "past_covariate", "historic_future_covariate"}, 1)),
         time_varying_decoder_input |-> Dedupe(Collect(tensors, {"future_covariate"}, 1)),
         static_input |-> Dedupe(Collect(tensors, {"static_covariate"}, 1))]

RECURSIVE SumWidth(_)
SumWidth(ts) == IF ts = <<>> THEN 0 ELSE ts[1].w + SumWidth(Tail(ts))

create_model(obj, train_sample) ==
    TFTModule(model_config(train_sample),
              SumWidth(NotNone(SubSeq(train_sample, 1, 3))),
              train_sample[5].w,
              OSInt(obj.output_size),
              obj.input_chunk_length,
              obj.output_chunk_length,
              obj.share_single_variable_networks)

\* ------------------------------------------- TFTModel._produce_predict_output
\* likelihood.sample(output): every value is drawn anew with the seed in force.
sample(output, seed) ==
    IF ~IsTensor(output) THEN Fail(output, "TypeError")
    ELSE Tensor(output.b, output.w,
            [i \in 1..Len(output.rows) |->
                [c \in 1..output.w |->
                    Cell(output.rows[i][c].k, output.rows[i][c].t, output.rows[i][c].c, seed)]])

\* Variant: the output is sampled whether or not a likelihood is set.
produce_predict_output_sampled(obj, x, strict, seed) ==
    sample(IF obj.loss_fn = "QuantileLoss"
           THEN SelectCol(forward(obj.model, x, strict), p50_index)
           ELSE forward(obj.model, x, strict), seed)

\* Variant: every quantile column is kept.
produce_predict_output_all_quantiles(obj, x, strict, seed) ==
    IF obj.likelihood = "None" THEN forward(obj.model, x, strict)
    ELSE sample(forward(obj.model, x, strict), seed)

produce_predict_output(obj, x, strict, seed) ==
    LET output == IF obj.loss_fn = "QuantileLoss"
                  THEN SelectCol(forward(obj.model, x, strict), p50_index)
                  ELSE forward(obj.model, x, strict)
    IN  IF obj.likelihood = "None" THEN output ELSE sample(output, seed)

\* ------------------------------------------------------------------- state
VARIABLES
    pc,                 \* where the program stands
    err,                \* the exception that ended it, "" when none
    rng,                \* draws made so far from the model's random instance
    self,               \* the TFTModel object
    fwd_x, fwd_out,     \* a direct forward call: its input and what it returned
    fwd_static,         \* ... and the static embedding it used
    fwd_vectors,        \* ... and the per-name columns it split its blocks into
    categoricals_out,   \* what reading the categoricals property gave
    n, roll_size, input_batch,                  \* _get_batch_prediction: arguments
    n_targets, n_past_covs, n_future_covs,      \* ... and locals
    input_past, input_future, out,
    batch_prediction, prediction_length,
    left_past, right_past, left_future, right_future,
    result,             \* the value _get_batch_prediction returned
    arg_roll_size,      \* the roll_size the rollout was called with
    calls,              \* the inputs of the model invocations made so far
    spills,             \* the iterations whose spillover adjustment ran
    iterations,         \* loop iterations entered so far
    runs, prev,         \* rollouts started on this object; the previous outcome
    given,              \* the caller's tensors as they were when the rollout began
    shared,             \* the caller's tensors each window shares its storage with
    encoder_lengths, decoder_length, mask,      \* a get_attention_mask call
    cm_size, cm_inverse, cm_mask                \* a create_mask call

objVars == <<rng, self>>
fwdVars == <<fwd_x, fwd_out, fwd_static, fwd_vectors, categoricals_out>>
argVars == <<n, roll_size, input_batch, arg_roll_size>>
locVars == <<n_targets, n_past_covs, n_future_covs, input_past, input_future, out,
             batch_prediction, prediction_length,
             left_past, right_past, left_future, right_future, result>>
ghostVars == <<calls, spills, iterations>>
runVars == <<runs, prev>>
heapVars == <<given, shared>>
maskVars == <<encoder_lengths, decoder_length, mask, cm_size, cm_inverse, cm_mask>>
vars == <<pc, err, objVars, fwdVars, argVars, locVars, ghostVars, runVars, heapVars,
          maskVars>>

NoSelf ==
    [input_chunk_length |-> 0, output_chunk_length |-> 0, output_size |-> 0,
     loss_fn |-> "None", likelihood |-> "None",
     share_single_variable_networks |-> FALSE,
     init_args |-> <<>>,        \* loss_fn and output_size of the last __init__ call
     train_sample |-> <<>>,     \* the sample the module was built from
     model |-> NoModule, direct |-> FALSE]

\* Both windows own their storage.
NoSharing == [input_past |-> {}, input_future |-> {}]

NoLocals ==
    /\ n_targets = 0 /\ n_past_covs = 0 /\ n_future_covs = 0
    /\ input_past = NoneT /\ input_future = NoneT /\ out = NoneT
    /\ batch_prediction = <<>> /\ prediction_length = 0
    /\ left_past = 0 /\ right_past = 0 /\ left_future = 0 /\ right_future = 0
    /\ result = NoneT

NoMask ==
    /\ encoder_lengths = <<>> /\ decoder_length = 0 /\ mask = <<>>
    /\ cm_size = 0 /\ cm_inverse = FALSE /\ cm_mask = <<>>

Init ==
    /\ pc = "new" /\ err = ""
    /\ rng = 0
    /\ self = NoSelf
    /\ fwd_x = <<>> /\ fwd_out = NoneT
    /\ fwd_static = NoneT /\ fwd_vectors = NoneT /\ categoricals_out = NoneT
    /\ n = 0 /\ roll_size = 0 /\ input_batch = <<>> /\ arg_roll_size = 0
    /\ NoLocals
    /\ calls = <<>> /\ spills = <<>> /\ iterations = 0
    /\ runs = 0 /\ prev = <<>>
    /\ given = <<>> /\ shared = NoSharing
    /\ NoMask

\* ------------------------------------------------------ construction actions
LossFns == {"QuantileLoss", "MSELoss"}
Likelihoods == {"None", "Likelihood"}
OutputSizeArgs == {<<>>, <<1>>, <<NumQuantiles>>}

\* TFTModel.__init__ (lines 932-961); @random_method draws one seed. The flag
\* share_single_variable_networks keeps its default and is handed on to the
\* module unchanged (line 1060); ConstructModule tries both its values.
TFTModelInit ==
    /\ pc = "new"
    /\ \E icl \in 1..MaxIcl, ocl \in 1..MaxOcl, loss_fn \in LossFns,
          output_size \in OutputSizeArgs, likelihood \in Likelihoods :
          /\ rng' = rng + 1
          /\ IF init_raises(loss_fn, output_size)
             THEN /\ pc' = "raised" /\ err' = "ValueError"
                  /\ self' = [NoSelf EXCEPT !.init_args = <<loss_fn, output_size>>]
             ELSE /\ pc' = "constructed" /\ err' = err
                  /\ self' = [NoSelf EXCEPT
                        !.input_chunk_length = icl,
                        !.output_chunk_length = ocl,
                        !.output_size = init_output_size(loss_fn, output_size),
                        !.loss_fn = loss_fn,
                        !.init_args = <<loss_fn, output_size>>,
                        !.likelihood = likelihood,
                        !.share_single_variable_networks = FALSE]
    /\ UNCHANGED <<fwdVars, argVars, locVars, ghostVars, runVars, heapVars, maskVars>>

Opt(k, b, w, from, to) == IF w = 0 THEN NoneT ELSE Data(k, b, w, from, to)

\* A training sample: nt target columns, npc past covariates and nfc future
\* covariates (0 columns standing for an absent tensor).
TrainSample(icl, ocl, nt, npc, nfc) ==
    <<Data("target", 1, nt, -icl, -1),
      Opt("past_cov", 1, npc, -icl, -1),
      Opt("fut_cov", 1, nfc, -icl, -1),
      Opt("fut_cov", 1, nfc, 0, ocl - 1),
      Data("target", 1, nt, 0, ocl - 1)>>

\* A sample whose historic future covariates have nh columns, its future
\* covariates one: what a caller of _TFTModule may describe in `variables`.
DirectSample(icl, ocl, nt, npc, nh) ==
    [TrainSample(icl, ocl, nt, npc, 1) EXCEPT ![3] = Opt("fut_cov", 1, nh, -icl, -1)]

\* TFTModel._create_model (lines 989-1061) on the first training sample; the
\* arguments of __init__ are out of scope by then.
CreateModel ==
    /\ pc = "constructed"
    /\ \E nt \in 1..MaxTargets, npc \in 0..MaxCovs, nfc \in 0..MaxCovs :
          LET ts == TrainSample(self.input_chunk_length,
                                self.output_chunk_length, nt, npc, nfc)
              m == create_model(self, ts)
          IN  /\ self' = [self EXCEPT !.model = m, !.train_sample = ts,
                                      !.init_args = <<>>]
              /\ IF m.raised
                 THEN pc' = "raised" /\ err' = "TypeError"
                 ELSE pc' = "ready" /\ err' = err
    /\ UNCHANGED <<rng, fwdVars, argVars, locVars, ghostVars, runVars, heapVars, maskVars>>

DirectOutputSizes ==
    {OSInt(1), OSInt(NumQuantiles), OSList(<<1>>), OSList(<<1, 1>>), OSList(<<NumQuantiles, 1>>)}

\* _TFTModule.__init__ (lines 41-262) called directly with its own arguments.
ConstructModule ==
    /\ pc = "new"
    /\ \E icl \in 1..MaxIcl, ocl \in 1..MaxOcl, nt \in 1..MaxTargets,
          npc \in 0..MaxCovs, nh \in 0..MaxCovs,
          output_size \in DirectOutputSizes, share \in BOOLEAN :
          LET ts == DirectSample(icl, ocl, nt, npc, nh)
              m == TFTModule(model_config(ts), SumWidth(NotNone(SubSeq(ts, 1, 3))),
                             nt, output_size, icl, ocl, share)
          IN  /\ self' = [NoSelf EXCEPT !.input_chunk_length = icl,
                                        !.output_chunk_length = ocl,
                                        !.share_single_variable_networks = share,
                                        !.train_sample = ts,
                                        !.model = m, !.direct = TRUE]
              /\ IF m.raised
                 THEN pc' = "raised" /\ err' = "TypeError"
                 ELSE pc' = "ready" /\ err' = err
    /\ UNCHANGED <<rng, fwdVars, argVars, locVars, ghostVars, runVars, heapVars, maskVars>>

\* The number of variable names of kind k.
CountKind(names, k) == Cardinality({i \in 1..Len(names) : names[i][1] = k})

\* An input tuple of forward: the past target present or None, covariate
\* tensors of wP, wH and wF columns (0 standing for None), the past tensors
\* of T[1] steps and the future covariates of T[2] steps.
ForwardInput(m, hasT, wP, wH, wF, T) ==
    <<IF hasT THEN Data("target", 1, m.n_targets, -T[1], -1) ELSE NoneT,
      Opt("past_cov", 1, wP, -T[1], -1),
      Opt("fut_cov", 1, wH, -T[1], -1),
      Opt("fut_cov", 1, wF, 0, T[2] - 1)>>

\* The inputs tried on forward: the one that fits the module's variables and
\* chunk lengths, and every input that departs from it in one respect: no
\* past target, one covariate tensor of another width (or None), or one more
\* time step in the past or in the future tensors.
ForwardInputs(m) ==
    LET enc == m.variables.time_varying_encoder_input
        eP == CountKind(enc, "past_covariate")
        eH == CountKind(enc, "future_covariate")
        eF == Len(m.variables.time_varying_decoder_input)
        T0 == <<m.input_chunk_length, m.output_chunk_length>>
    IN  {ForwardInput(m, hasT, eP, eH, eF, T0) : hasT \in BOOLEAN}
        \cup {ForwardInput(m, TRUE, w, eH, eF, T0) : w \in 0..MaxCovs}
        \cup {ForwardInput(m, TRUE, eP, w, eF, T0) : w \in 0..MaxCovs}
        \cup {ForwardInput(m, TRUE, eP, eH, w, T0) : w \in 0..MaxCovs}
        \cup {ForwardInput(m, TRUE, eP, eH, eF, T) :
                 T \in {<<T0[1] + 1, T0[2]>>, <<T0[1], T0[2] + 1>>}}

\* A call of the module's forward (lines 360-528).
ForwardCall ==
    /\ pc = "ready"
    /\ \E x \in ForwardInputs(self.model), strict \in BOOLEAN :
          /\ fwd_x' = x
          /\ fwd_out' = forward(self.model, x, strict)
          /\ fwd_static' = IF IsRaise(forward_prepare(self.model, x)) THEN NoneT
                            ELSE static_embedding(self.model, x)
          /\ fwd_vectors' = IF IsRaise(forward_prepare(self.model, x)) THEN NoneT
                             ELSE input_vectors(self.model, x)
    /\ pc' = "forwarded"
    /\ UNCHANGED <<err, objVars, categoricals_out, argVars, locVars, ghostVars,
                   runVars, heapVars, maskVars>>

\* The categoricals property read on a built module (lines 269-279).
CategoricalsCall ==
    /\ pc = "ready"
    /\ categoricals_out' = categoricals(self.model)
    /\ IF IsRaise(categoricals(self.model))
       THEN pc' = "raised" /\ err' = categoricals(self.model).err
       ELSE pc' = "categoricals" /\ err' = err
    /\ UNCHANGED <<objVars, fwd_x, fwd_out, fwd_static, fwd_vectors, argVars, locVars, ghostVars,
                   runVars, heapVars, maskVars>>


\* ------------------------------------------- TFTModel._get_batch_prediction
\* The input batch a fitted model is rolled out on: the tensors it was trained
\* with, `batch` samples, the future tensors spanning `span` steps.
InputBatch(obj, batch, span) ==
    LET m == obj.model
        icl == obj.input_chunk_length
        npc == CountKind(m.variables.time_varying_encoder_input, "past_covariate")
        nfc == Len(m.variables.time_varying_decoder_input)
    IN  <<Data("target", batch, m.n_targets, -icl, -1),
          Opt("past_cov", batch, npc, -icl, -1),
          Opt("fut_cov", batch, nfc, -icl, -1),
          Opt("fut_cov", batch, nfc, 0, span - 1),
          Opt("past_cov", batch, npc, 0, span - 1)>>

HorizonSpans(h, ocl) == {h, Max2(h, ocl)}

\* The storage of a rollout tensor is told by the set of caller tensors
\* (positions of input_batch) it shares memory with; {} is memory of its own.
\* torch.cat (lines 1108-1111) allocates its result.
cat_storage(parts) == {}

\* torch.clone (lines 1113 and 1176) allocates its result.
clone_storage(src) == {}

\* Variant: the shifted window is laid over the caller's past target.
roll_storage_past_target(src) == {1}

\* torch.roll (line 1139) allocates its result.
roll_storage(src) == {}

\* The in-place assignments of lines 1142-1171 as the caller sees them: a
\* caller tensor the window shares its storage with takes the window's
\* columns of its part (target, past covariates, historic future covariates).
write_through(batch, sharing, window, nt, np) ==
    [i \in 1..Len(batch) |->
        IF i \in sharing /\ i <= 3 /\ IsTensor(batch[i]) /\ IsTensor(window)
        THEN IF i = 1 THEN SliceCols(window, 0, nt)
             ELSE IF i = 2 THEN SliceCols(window, nt, nt + np)
             ELSE SliceCols(window, nt + np, window.w)
        ELSE batch[i]]

\* Lines 1100-1113: bind the batch, count the columns, build the two windows.
Enter(batch_in, h, rs) ==
    /\ n' = h /\ roll_size' = rs /\ arg_roll_size' = rs
    /\ input_batch' = batch_in
    /\ n_targets' = batch_in[1].w
    /\ n_past_covs' = IF ~IsNone(batch_in[2]) THEN batch_in[2].w ELSE 0
    /\ n_future_covs' = IF ~IsNone(batch_in[4]) THEN batch_in[4].w ELSE 0
    /\ input_past' = CatCols(NotNone(SubSeq(batch_in, 1, 3)))
    /\ input_future' = IF ~IsNone(batch_in[4])
                       THEN SliceTimeTo(batch_in[4], rs) ELSE NoneT
    /\ out' = NoneT /\ batch_prediction' = <<>> /\ prediction_length' = 0
    /\ left_past' = 0 /\ right_past' = 0 /\ left_future' = 0 /\ right_future' = 0
    /\ result' = NoneT
    /\ calls' = <<>> /\ spills' = <<>> /\ iterations' = 0
    /\ given' = batch_in
    /\ shared' = [input_past |-> cat_storage({i \in 1..3 : ~IsNone(batch_in[i])}),
                  input_future |-> clone_storage({4})]
    /\ pc' = "first"

StartRollout ==
    /\ pc = "ready" /\ ~self.direct
    /\ \E h \in 1..MaxN, rs \in 1..self.output_chunk_length, batch \in 1..MaxBatch :
         \E span \in HorizonSpans(h, self.output_chunk_length) :
            Enter(InputBatch(self, batch, span), h, rs)
    /\ runs' = 1 /\ prev' = <<>>
    /\ UNCHANGED <<err, objVars, fwdVars, maskVars>>

\* out[:, self.first_prediction_index:, :]
FromFirstPredictionIndex(x) == SliceTimeFrom(x, first_prediction_index)

\* Lines 1115-1120: the first invocation, on the caller's past tensors and the
\* first roll_size steps of the future covariates.
FirstPrediction ==
    /\ pc = "first"
    /\ \E strict \in BOOLEAN :
          LET x == <<input_batch[1], input_batch[2], input_batch[3], input_future>>
              o == FromFirstPredictionIndex(
                       produce_predict_output(self, x, strict, rng + 1))
          IN  /\ rng' = rng + 1
              /\ calls' = Append(calls, x)
              /\ out' = o
              /\ IF IsRaise(o)
                 THEN /\ pc' = "raised" /\ err' = o.err
                      /\ UNCHANGED <<batch_prediction, prediction_length>>
                 ELSE /\ pc' = "while" /\ err' = err
                      /\ batch_prediction' = <<SliceTimeTo(o, roll_size)>>
                      /\ prediction_length' = roll_size
    /\ UNCHANGED <<self, fwdVars, argVars, n_targets, n_past_covs,
                   n_future_covs, input_past, input_future, left_past, right_past,
                   left_future, right_future, result, spills, iterations, runVars, heapVars, maskVars>>

\* Line 1127: the loop condition.
LoopTest ==
    /\ pc = "while"
    /\ IF prediction_length < n
       THEN pc' = "spill" /\ iterations' = iterations + 1
       ELSE pc' = "concat" /\ iterations' = iterations
    /\ UNCHANGED <<err, objVars, fwdVars, argVars, locVars, calls, spills, runVars, heapVars, maskVars>>

\* Variant: no step is taken back.
spillover_none(pl, rs, ocl, h) == 0

\* Lines 1131-1135: the new roll_size, prediction_length and last chunk.
spillover(pl, rs, ocl, h) == pl + ocl - h
needs_spillover(pl, ocl, h) == pl + ocl > h

Spillover ==
    /\ pc = "spill"
    /\ IF needs_spillover(prediction_length, self.output_chunk_length, n)
       THEN LET spillover_prediction_length ==
                    spillover(prediction_length, roll_size, self.output_chunk_length, n)
                rs == roll_size - spillover_prediction_length
            IN  /\ roll_size' = rs
                /\ prediction_length' = prediction_length - spillover_prediction_length
                /\ batch_prediction' =
                       [batch_prediction EXCEPT ![Len(batch_prediction)] =
                            SliceTimeTo(batch_prediction[Len(batch_prediction)], rs)]
                /\ spills' = Append(spills, iterations)
       ELSE UNCHANGED <<roll_size, prediction_length, batch_prediction, spills>>
    /\ pc' = "update"
    /\ UNCHANGED <<err, objVars, fwdVars, n, input_batch, arg_roll_size,
                   n_targets, n_past_covs, n_future_covs, input_past, input_future, out,
                   left_past, right_past, left_future, right_future, result,
                   calls, iterations, runVars, heapVars, maskVars>>

\* Lines 1139-1145: the past window rolled and its target columns overwritten.
roll_targets(ip, o, rs, icl, nt) ==
    IF icl >= rs
    THEN SetBlock(Roll(ip, -rs), -rs, 0, nt, SliceTimeTo(o, rs))
    ELSE SetBlock(Roll(ip, -rs), 0, 0, nt, SliceTimeFrom(o, -icl))

\* Lines 1148-1151.
past_bounds(pl, rs, icl) ==
    IF icl >= rs THEN <<pl - rs, pl>> ELSE <<pl - icl, pl>>

\* Lines 1154-1161 and 1164-1171: a covariate column range c0..c1 overwritten
\* with the rows lp..rp of the horizon tensor `future`, when it has columns.
roll_covariates(ip, future, ncols, c0, c1, rs, icl, lp, rp) ==
    IF ncols # 0 /\ icl >= rs THEN SetBlock(ip, -rs, c0, c1, SliceTime(future, lp, rp))
    ELSE IF ncols # 0 THEN SetBlock(ip, 0, c0, c1, SliceTime(future, lp, rp))
    ELSE ip

\* Line 1174.
future_bounds(rp, ocl) == <<rp, rp + ocl>>

\* Lines 1139-1176: both windows moved to the next block.
UpdateWindows ==
    /\ pc = "update"
    /\ LET icl == self.input_chunk_length
           pb == past_bounds(prediction_length, roll_size, icl)
           fb == future_bounds(pb[2], self.output_chunk_length)
           ip1 == roll_targets(input_past, out, roll_size, icl, n_targets)
           ip2 == roll_covariates(ip1, input_batch[5], n_past_covs, n_targets,
                                  n_targets + n_past_covs, roll_size, icl, pb[1], pb[2])
           ip3 == roll_covariates(ip2, input_batch[4], n_future_covs,
                                  n_targets + n_past_covs, input_past.w,
                                  roll_size, icl, pb[1], pb[2])
           fut == SliceTime(input_batch[4], fb[1], fb[2])
           rolled == roll_storage(shared.input_past)
           written == IF ~IsRaise(ip3) THEN ip3
                      ELSE IF ~IsRaise(ip2) THEN ip2
                      ELSE IF ~IsRaise(ip1) THEN ip1 ELSE Roll(input_past, -roll_size)
       IN  /\ input_batch' = write_through(input_batch, rolled, written,
                                           n_targets, n_past_covs)
           /\ shared' = [input_past |-> rolled,
                         input_future |-> IF IsRaise(ip3) \/ IsRaise(fut)
                                          THEN shared.input_future
                                          ELSE clone_storage({4})]
           /\ left_past' = pb[1] /\ right_past' = pb[2]
           /\ left_future' = fb[1] /\ right_future' = fb[2]
           /\ IF IsRaise(ip3) \/ IsRaise(fut)
              THEN /\ pc' = "raised"
                   /\ err' = IF IsRaise(ip3) THEN ip3.err ELSE fut.err
                   /\ UNCHANGED <<input_past, input_future>>
              ELSE /\ pc' = "invoke" /\ err' = err
                   /\ input_past' = ip3
                   /\ input_future' = fut
    /\ UNCHANGED <<objVars, fwdVars, n, roll_size, arg_roll_size,
                   n_targets, n_past_covs, n_future_covs, out,
                   batch_prediction, prediction_length, result, ghostVars, runVars,
                   given, maskVars>>

\* Lines 1185-1188: the past window split back into the model's inputs.
split_windows(ip, fut, nt, npc, nfc) ==
    <<SliceCols(ip, 0, nt),
      IF npc # 0 THEN SliceCols(ip, nt, nt + npc) ELSE NoneT,
      IF nfc # 0 THEN SliceCols(ip, nt + npc, ip.w) ELSE NoneT,
      IF nfc # 0 THEN fut ELSE NoneT>>

\* Variant: the length advances by one step more than a chunk.
advance_overshoot(pl, rs, ocl) == pl + ocl + 1

\* Variant: the length does not advance.
advance_stalled(pl, rs, ocl) == pl

\* Line 1196.
advance(pl, rs, ocl) == pl + ocl

\* Lines 1185-1196: the next invocation; its output is appended whole.
Invoke ==
    /\ pc = "invoke"
    /\ \E strict \in BOOLEAN :
          LET x == split_windows(input_past, input_future, n_targets, n_past_covs, n_future_covs)
              o == FromFirstPredictionIndex(
                       produce_predict_output(self, x, strict, rng + 1))
          IN  /\ rng' = rng + 1
              /\ calls' = Append(calls, x)
              /\ out' = o
              /\ IF IsRaise(o)
                 THEN /\ pc' = "raised" /\ err' = o.err
                      /\ UNCHANGED <<batch_prediction, prediction_length>>
                 ELSE /\ pc' = "while" /\ err' = err
                      /\ batch_prediction' = Append(batch_prediction, o)
                      /\ prediction_length' =
                             advance(prediction_length, roll_size, self.output_chunk_length)
    /\ UNCHANGED <<self, fwdVars, argVars, n_targets, n_past_covs,
                   n_future_covs, input_past, input_future, left_past, right_past,
                   left_future, right_future, result, spills, iterations, runVars, heapVars, maskVars>>

\* Lines 1199-1200: the chunks concatenated along time and cut to n steps.
final_prediction(chunks, h) == SliceTimeTo(CatTime(chunks), h)

\* Lines 1199-1201.
Finish ==
    /\ pc = "concat"
    /\ result' = final_prediction(batch_prediction, n)
    /\ pc' = "done"
    /\ UNCHANGED <<err, objVars, fwdVars, argVars, n_targets, n_past_covs, n_future_covs,
                   input_past, input_future, out, batch_prediction, prediction_length,
                   left_past, right_past, left_future, right_future,
                   ghostVars, runVars, heapVars, maskVars>>

\* The same rollout asked again of the same object, on the same input batch.
Rerun ==
    /\ pc = "done" /\ runs = 1
    /\ prev' = <<[result |-> result, calls |-> calls]>>
    /\ runs' = runs + 1
    /\ Enter(input_batch, n, arg_roll_size)
    /\ UNCHANGED <<err, objVars, fwdVars, maskVars>>

Next ==
    \/ TFTModelInit
    \/ CreateModel
    \/ ConstructModule
    \/ ForwardCall
    \/ CategoricalsCall
    \/ StartRollout
    \/ FirstPrediction
    \/ LoopTest
    \/ Spillover
    \/ UpdateWindows
    \/ Invoke
    \/ Finish

Spec == Init /\ [][Next]_vars

NextRepeat == Next \/ Rerun

SpecRepeat == Init /\ [][NextRepeat]_vars

\* ------------------------------------------------- the mask functions alone
RECURSIVE Seqs(_, _)
Seqs(S, k) == IF k = 0 THEN {<<>>} ELSE {Append(q, x) : q \in Seqs(S, k - 1), x \in S}

LengthVectors == UNION {Seqs(0..MaxEncLen, k) : k \in 1..MaxMaskBatch}

InitMask ==
    /\ pc = "mask" /\ err = ""
    /\ rng = 0 /\ self = NoSelf
    /\ fwd_x = <<>> /\ fwd_out = NoneT
    /\ fwd_static = NoneT /\ fwd_vectors = NoneT /\ categoricals_out = NoneT
    /\ n = 0 /\ roll_size = 0 /\ input_batch = <<>> /\ arg_roll_size = 0
    /\ NoLocals
    /\ calls = <<>> /\ spills = <<>> /\ iterations = 0
    /\ runs = 0 /\ prev = <<>>
    /\ given = <<>> /\ shared = NoSharing
    /\ NoMask

\* A call of get_attention_mask (lines 305-337).
AttentionMaskCall ==
    /\ pc = "mask"
    /\ \E lengths \in LengthVectors, dl \in 1..MaxDecLen :
          /\ encoder_lengths' = lengths
          /\ decoder_length' = dl
          /\ mask' = get_attention_mask(lengths, dl)
    /\ pc' = "attention_mask"
    /\ UNCHANGED <<err, objVars, fwdVars, argVars, locVars, ghostVars, runVars, heapVars,
                   cm_size, cm_inverse, cm_mask>>

\* A call of create_mask (lines 339-358).
CreateMaskCall ==
    /\ pc = "mask"
    /\ \E size \in 0..MaxEncLen, lengths \in LengthVectors, inverse \in BOOLEAN :
          /\ encoder_lengths' = lengths
          /\ cm_size' = size
          /\ cm_inverse' = inverse
          /\ cm_mask' = create_mask(size, lengths, inverse)
    /\ pc' = "create_mask"
    /\ UNCHANGED <<err, objVars, fwdVars, argVars, locVars, ghostVars, runVars, heapVars,
                   decoder_length, mask>>

NextMask == AttentionMaskCall \/ CreateMaskCall

SpecMask == InitMask /\ [][NextMask]_vars

\* ------------------------------------------------------ what the claims use
RolloutEnded == runs > 0 /\ pc \in {"done", "raised"}

\* The steps the supplied future covariates span beyond the forecast origin.
Span == Len(input_batch[4].rows)

\* The rollout was given future covariates over max(n, output_chunk_length)
\* steps, as the model was trained with.
AmpleHorizon ==
    /\ n_future_covs > 0
    /\ Span >= n /\ Span >= self.output_chunk_length

FullRoll == arg_roll_size = self.output_chunk_length

\* The steps each chunk contributes to the first h steps of the concatenation.
Contributions(chunks, h) ==
    [i \in 1..Len(chunks) |->
        Min2(Len(chunks[i].rows), Max2(0, h - SumLen(SubSeq(chunks, 1, i - 1))))]

\* Position i of the tensor holds a forecast for horizon offset i - 1.
Aligned(x) ==
    \A i \in 1..Len(x.rows) :
        \A c \in 1..Len(x.rows[i]) : x.rows[i][c].k = "pred" /\ x.rows[i][c].t = i - 1

\* C1 (as claimed): every rollout with n >= 1 and 1 <= roll_size <=
\* output_chunk_length returns a prediction of exactly n time steps.
C1_ReturnsExactlyN ==
    (RolloutEnded /\ AmpleHorizon) => (pc = "done" /\ TimeLen(result) = n)

C3_LastChunkTruncated ==
    LET ocl == self.output_chunk_length
    IN  (pc = "done" /\ AmpleHorizon /\ FullRoll /\ n % ocl # 0)
        => Contributions(batch_prediction, n) =
               [i \in 1..CeilDiv(n, ocl) |-> IF i = CeilDiv(n, ocl) THEN n % ocl ELSE ocl]

\* C3 (amended): when n is not a multiple of output_chunk_length and exceeds
\* it, the chunk appended BEFORE the last invocation is the truncated one and
\* the last invocation's output is kept whole: the contributions are
\* ocl, ..., ocl, remainder, ocl; when n < output_chunk_length the single
\* invocation contributes n steps.
C3_PreviousChunkTruncated ==
    LET ocl == self.output_chunk_length
        k == n \div ocl
    IN  (pc = "done" /\ AmpleHorizon /\ FullRoll /\ n % ocl # 0)
        => Contributions(batch_prediction, n) =
               IF n < ocl THEN <<n>>
               ELSE [i \in 1..(k + 1) |-> IF i = k THEN n % ocl ELSE ocl]

C3_Witness ==
    /\ pc = "done" /\ AmpleHorizon /\ FullRoll
    /\ self.output_chunk_length = 2 /\ n = 5
    /\ Contributions(batch_prediction, n) = <<2, 1, 2>>
    /\ spills = <<2>>

\* C4: a rollout with roll_size = output_chunk_length that returns has invoked
\* the model exactly ceil(n / output_chunk_length) times.
C4_InvocationCount ==
    (pc = "done" /\ FullRoll) => Len(calls) = CeilDiv(n, self.output_chunk_length)

C4_Witness ==
    /\ pc = "done" /\ FullRoll
    /\ self.output_chunk_length = 2 /\ n = 5 /\ Len(calls) = 3

\* C5: the rollout loop runs while prediction_length < n and terminates after
\* finitely many iterations: its body is entered fewer than n times, the loop
\* is left only with prediction_length >= n, and what is returned is the
\* concatenation of the chunks cut to its first n steps.
C5_LoopBounded ==
    /\ (pc = "spill" => prediction_length < n)
    /\ (pc = "concat" => prediction_length >= n)
    /\ (runs > 0 => iterations <= Max2(n - 1, 0))
    /\ (pc = "done" => result = SliceTimeTo(CatTime(batch_prediction), n))

C5_Witness ==
    /\ pc = "done" /\ iterations = 3 /\ n = 7 /\ prediction_length = 7
    /\ TimeLen(result) = 7

C7_ShapeOutputSize ==
    (pc = "done" /\ AmpleHorizon /\ FullRoll)
        => Shape(result) = <<input_batch[1].b, n, self.output_size>>

\* C7 (amended): the rollout returns one tensor whose batch dimension is the
\* input's, whose feature dimension is 1 (under QuantileLoss only the median
\* column of the output_size quantile columns is kept) and whose time
\* dimension is at most n, and exactly n when roll_size = output_chunk_length
\* and the future covariates span max(n, output_chunk_length) steps.
C7_ShapeMedianOnly ==
    pc = "done"
        => /\ IsTensor(result)
           /\ result.b = input_batch[1].b
           /\ result.w = 1
           /\ TimeLen(result) <= n
           /\ (AmpleHorizon /\ FullRoll => TimeLen(result) = n)
           /\ \A i \in 1..TimeLen(result) :
                 /\ Len(result.rows[i]) = 1
                 /\ result.rows[i][1].c =
                        IF self.loss_fn = "QuantileLoss" THEN p50_index ELSE 0

C7_Witness ==
    /\ pc = "done" /\ AmpleHorizon /\ FullRoll
    /\ self.loss_fn = "QuantileLoss" /\ self.output_size = NumQuantiles
    /\ input_batch[1].b = 2 /\ n = 5
    /\ Shape(result) = <<2, 5, 1>>

\* The position of mask column k: encoder positions come first.
EncoderSize == SeqMax(encoder_lengths)

\* C8 (as claimed): the mask is True exactly at an encoder position with
\* index >= encoder_lengths[b] or at a decoder position strictly after the
\* query step; the decoder position equal to the query step is False.
C8_MaskStrictlyFuture ==
    pc = "attention_mask" =>
        \A b \in 1..Len(mask) : \A q \in 1..Len(mask[b]) : \A k \in 1..Len(mask[b][q]) :
            mask[b][q][k] =
                IF k <= EncoderSize THEN (k - 1) >= encoder_lengths[b]
                ELSE (k - EncoderSize - 1) > (q - 1)

\* C8 (amended): the mask is True exactly at an encoder position with index
\* >= encoder_lengths[b] or at a decoder position at or after the query step:
\* the decoder position equal to the query step is masked too.
C8_MaskSelfAndFuture ==
    pc = "attention_mask" =>
        /\ Len(mask) = Len(encoder_lengths)
        /\ \A b \in 1..Len(mask) :
              /\ Len(mask[b]) = decoder_length
              /\ \A q \in 1..decoder_length :
                    /\ Len(mask[b][q]) = EncoderSize + decoder_length
                    /\ \A k \in 1..(EncoderSize + decoder_length) :
                          mask[b][q][k] =
                              IF k <= EncoderSize THEN (k - 1) >= encoder_lengths[b]
                              ELSE (k - EncoderSize - 1) >= (q - 1)

C8_Witness ==
    /\ pc = "attention_mask"
    /\ encoder_lengths = <<3, 1>> /\ decoder_length = 3
    /\ mask[2][2] = <<FALSE, TRUE, TRUE, FALSE, TRUE, TRUE>>
    /\ mask[1][1] = <<FALSE, FALSE, FALSE, TRUE, TRUE, TRUE>>

\* The forward input carries the tensors the module was built for: the past
\* target, the past and historic future covariate columns of its encoder
\* variables and future covariates for its decoder variables, the past ones
\* of input_chunk_length steps and the future ones of output_chunk_length.
ValidForwardInput ==
    LET m == self.model
        enc == m.variables.time_varying_encoder_input
    IN  /\ Len(fwd_x) = 4
        /\ IsTensor(fwd_x[1]) /\ TimeLen(fwd_x[1]) = m.input_chunk_length
        /\ IsTensor(fwd_x[4]) /\ TimeLen(fwd_x[4]) = m.output_chunk_length
        /\ fwd_x[2].w = CountKind(enc, "past_covariate")
        /\ fwd_x[3].w = CountKind(enc, "future_covariate")
        /\ fwd_x[4].w >= Len(m.variables.time_varying_decoder_input)

\* C9: for a single-target module, forward on a valid input returns one
\* tensor of output_chunk_length time steps and output_size columns.
C9_ForwardShape ==
    (pc = "forwarded" /\ self.model.n_targets = 1 /\ ValidForwardInput)
        => /\ IsTensor(fwd_out)
           /\ Shape(fwd_out) =
                  <<fwd_x[1].b, self.model.output_chunk_length, self.model.output_size.n>>

C9_Witness ==
    /\ pc = "forwarded" /\ self.model.n_targets = 1 /\ ValidForwardInput
    /\ ~self.direct /\ self.loss_fn = "QuantileLoss"
    /\ self.model.output_chunk_length = 3
    /\ Shape(fwd_out) = <<1, 3, 7>>

\* C10 (as claimed): a model fitted on more than one target owns one linear
\* head per target and its forward returns one tensor per target.
C10_OneHeadPerTarget ==
    (~self.direct /\ self.model.output_dim > 1)
        => /\ ~self.model.raised
           /\ self.model.output_layer.islist
           /\ Len(self.model.output_layer.heads) = self.model.output_dim
           /\ (pc = "forwarded" /\ ValidForwardInput
                  => IsList(fwd_out) /\ Len(fwd_out.items) = self.model.output_dim)

\* The model was fitted on one target column and no covariate of any kind.
NoCovariates ==
    /\ ~self.direct /\ self.train_sample # <<>>
    /\ self.train_sample[1].w = 1
    /\ \A i \in 2..4 : IsNone(self.train_sample[i])

\* C11 (as claimed): for a model with one target and no covariates, forward on
\* the past target alone returns a (1, output_chunk_length, output_size)
\* tensor and a rollout ends without raising with a (1, n, .) tensor.
C11_ZeroCovariatesRun ==
    NoCovariates =>
        /\ (pc = "forwarded" /\ IsTensor(fwd_x[1])
               /\ TimeLen(fwd_x[1]) = self.input_chunk_length
               /\ \A i \in 2..4 : IsNone(fwd_x[i]))
              => Shape(fwd_out) = <<1, self.output_chunk_length, self.output_size>>
        /\ RolloutEnded => (pc = "done" /\ TimeLen(result) = n)

C13_ConfigErrorAtConstruction ==
    LET a == self.init_args
    IN  (/\ a # <<>> /\ a[2] # <<>>
         /\ \/ (a[1] = "QuantileLoss" /\ a[2][1] # NumQuantiles)
            \/ (a[1] # "QuantileLoss" /\ a[2][1] # 1))
        => /\ pc = "raised" /\ err = "ValueError"
           /\ self.model = NoModule /\ self.train_sample = <<>>
           /\ fwd_x = <<>> /\ fwd_out = NoneT
           /\ runs = 0 /\ calls = <<>>

C13_Witness ==
    /\ pc = "raised" /\ err = "ValueError"
    /\ self.init_args = <<"QuantileLoss", <<1>>>>
    /\ self.model = NoModule

\* C14: reading the categoricals property fails with NotImplementedError on
\* every module, however it was configured; it returns no value and the
\* failure ends the call.
C14_CategoricalsUnsupported ==
    categoricals_out # NoneT =>
        /\ IsRaise(categoricals_out)
        /\ categoricals_out.err = "NotImplementedError"
        /\ pc = "raised" /\ err = "NotImplementedError"

C14_Witness ==
    /\ pc = "raised" /\ err = "NotImplementedError"
    /\ IsRaise(categoricals_out)
    /\ ~self.direct /\ ~self.model.raised
    /\ Len(self.model.variables.reals_input) = 3

Built == self.train_sample # <<>>
Groups == self.model.variables
Width(i) == IF IsNone(self.train_sample[i]) THEN 0 ELSE self.train_sample[i].w
NamesOf(var_name, k) == [i \in 1..k |-> <<var_name, i - 1>>]
NoDuplicates(s) == \A i, j \in 1..Len(s) : s[i] = s[j] => i = j

\* C15 (as claimed): the static, encoder and decoder groups built by
\* _create_model are pairwise disjoint and together cover the reals list.
C15_GroupsPartition ==
    (Built /\ ~self.direct) =>
        /\ Names(Groups.static_input) \cap Names(Groups.time_varying_encoder_input) = {}
        /\ Names(Groups.static_input) \cap Names(Groups.time_varying_decoder_input) = {}
        /\ Names(Groups.time_varying_encoder_input)
               \cap Names(Groups.time_varying_decoder_input) = {}
        /\ Names(Groups.static_input) \cup Names(Groups.time_varying_encoder_input)
               \cup Names(Groups.time_varying_decoder_input) = Names(Groups.reals_input)

\* C15 (amended): the groups built by _create_model together cover the reals
\* list and the static group is empty, but the encoder and decoder groups
\* are not disjoint: every decoder name (a future covariate) is an encoder
\* name too; only the target and past-covariate names are in one group.
C15_GroupsCoverDecoderInEncoder ==
    (Built /\ ~self.direct) =>
        /\ Groups.static_input = <<>>
        /\ Names(Groups.time_varying_encoder_input)
               \cup Names(Groups.time_varying_decoder_input) = Names(Groups.reals_input)
        /\ Names(Groups.time_varying_decoder_input)
               \subseteq Names(Groups.time_varying_encoder_input)
        /\ \A v \in Names(Groups.time_varying_decoder_input) : v[1] = "future_covariate"
        /\ \A v \in Names(Groups.time_varying_encoder_input) :
              v[1] \in {"target", "past_covariate"}
                  => v \notin Names(Groups.time_varying_decoder_input)

C15_Witness ==
    /\ Built /\ ~self.direct
    /\ Groups.time_varying_decoder_input = <<<<"future_covariate", 0>>>>
    /\ Groups.time_varying_encoder_input =
           <<<<"target", 0>>, <<"past_covariate", 0>>, <<"future_covariate", 0>>>>

\* C18: each group list is free of duplicates and in first-seen order: the
\* encoder list is the target names, the past-covariate names and the
\* historic-future-covariate names, the decoder list the future-covariate
\* names, the reals list the names of all of them, each in column order.
C18_GroupOrder ==
    Built =>
        /\ Groups.time_varying_encoder_input =
               NamesOf("target", Width(1)) \o NamesOf("past_covariate", Width(2))
                   \o NamesOf("future_covariate", Width(3))
        /\ Groups.time_varying_decoder_input = NamesOf("future_covariate", Width(4))
        /\ Groups.static_input = <<>>
        /\ Groups.reals_input =
               NamesOf("target", Width(1)) \o NamesOf("past_covariate", Width(2))
                   \o NamesOf("future_covariate", Max2(Width(3), Width(4)))
        /\ NoDuplicates(Groups.reals_input)
        /\ NoDuplicates(Groups.time_varying_encoder_input)
        /\ NoDuplicates(Groups.time_varying_decoder_input)

C18_Witness ==
    /\ Built /\ Width(1) = 2 /\ Width(2) = 1 /\ Width(3) = 1 /\ Width(4) = 1
    /\ Groups.reals_input =
           <<<<"target", 0>>, <<"target", 1>>, <<"past_covariate", 0>>,
             <<"future_covariate", 0>>>>

\* C16: with share_single_variable_networks the shared map holds every
\* encoder and decoder name exactly once, the encoder names first, a name of
\* both groups keeps the network made for it in the encoder loop, and both
\* variable-selection gates are handed this one map.
C16_SharedNetworks ==
    (Built /\ self.model.share_single_variable_networks) =>
        LET g == self.model.shared_single_variable_grns
            enc == Groups.time_varying_encoder_input
            dec == Groups.time_varying_decoder_input
            names == [i \in 1..Len(g) |-> g[i].name]
        IN  /\ self.model.encoder_variable_selection.single_variable_grns = g
            /\ self.model.decoder_variable_selection.single_variable_grns = g
            /\ NoDuplicates(names)
            /\ Names(names) = Names(enc) \cup Names(dec)
            /\ SubSeq(names, 1, Len(enc)) = enc
            /\ \A i \in 1..Len(g) :
                  g[i].instance[1] = IF g[i].name \in Names(enc) THEN "encoder" ELSE "decoder"
            /\ NoDuplicates([i \in 1..Len(g) |-> g[i].instance])

C16_Witness ==
    /\ Built /\ self.model.share_single_variable_networks
    /\ Groups.time_varying_encoder_input = <<<<"target", 0>>, <<"future_covariate", 0>>>>
    /\ Groups.time_varying_decoder_input = <<<<"future_covariate", 0>>>>
    /\ self.model.decoder_variable_selection.single_variable_grns =
           <<[name |-> <<"target", 0>>, instance |-> <<"encoder", 1>>],
             [name |-> <<"future_covariate", 0>>, instance |-> <<"encoder", 2>>]>>

\* C19: a window update with input_chunk_length >= roll_size >= 1 moves the
\* old past window left by roll_size rows, and writes the rightmost roll_size
\* rows anew: their target columns are the first roll_size rows of the last
\* output, their past and future covariate columns the rows of the horizon
\* tensors at the offsets prediction_length - roll_size .. prediction_length - 1.
C19_ShiftAndOverwrite ==
    [][(pc = "update" /\ pc' = "invoke"
          /\ self.input_chunk_length >= roll_size /\ roll_size >= 1) =>
        LET icl == self.input_chunk_length
            keep == icl - roll_size
        IN  \A i \in 1..icl :
              IF i <= keep THEN input_past'.rows[i] = input_past.rows[i + roll_size]
              ELSE LET j == i - keep
                       t == prediction_length - roll_size + j - 1
                       row == input_past'.rows[i]
                   IN  /\ SubSeq(row, 1, n_targets) = out.rows[j]
                       /\ n_past_covs > 0 =>
                            SubSeq(row, n_targets + 1, n_targets + n_past_covs)
                                = input_batch[5].rows[t + 1]
                       /\ SubSeq(row, n_targets + n_past_covs + 1, Len(row))
                                = input_batch[4].rows[t + 1]]_vars

C19_Witness ==
    /\ pc = "invoke" /\ iterations = 1
    /\ self.input_chunk_length = 2 /\ roll_size = 1 /\ prediction_length = 1
    /\ n_targets = 1 /\ n_past_covs = 1 /\ n_future_covs = 1
    /\ input_past.rows[1] = <<Cell("target", -1, 0, 0), Cell("past_cov", -1, 0, 0),
                              Cell("fut_cov", -1, 0, 0)>>
    /\ input_past.rows[2][1].k = "pred" /\ input_past.rows[2][1].t = 0
    /\ input_past.rows[2][2] = Cell("past_cov", 0, 0, 0)
    /\ input_past.rows[2][3] = Cell("fut_cov", 0, 0, 0)

\* C20: after a window update with roll_size > input_chunk_length, on a
\* rollout of roll_size = output_chunk_length over an ample horizon, every
\* row of the past window holds, in its target columns, the prediction for
\* the offset prediction_length - input_chunk_length + (row index), and in
\* its covariate columns the covariates of that same offset.
C20_WindowReplaced ==
    (pc = "invoke" /\ AmpleHorizon /\ FullRoll /\ roll_size > self.input_chunk_length) =>
        \A i \in 1..self.input_chunk_length :
            LET t == prediction_length - self.input_chunk_length + i - 1
                row == input_past.rows[i]
            IN  /\ \A c \in 1..n_targets : row[c].k = "pred" /\ row[c].t = t
                /\ SubSeq(row, n_targets + 1, n_targets + n_past_covs)
                       = IF n_past_covs > 0 THEN input_batch[5].rows[t + 1] ELSE <<>>
                /\ SubSeq(row, n_targets + n_past_covs + 1, Len(row))
                       = input_batch[4].rows[t + 1]

\* C21 (as claimed): when the supplied future covariates span at least n
\* steps, every invocation of a rollout, the first included, is handed a
\* future-covariate window of exactly output_chunk_length time steps.
C21_FutureWindowLength ==
    (runs > 0 /\ n_future_covs > 0 /\ Span >= n) =>
        \A i \in 1..Len(calls) :
            /\ IsTensor(calls[i][4])
            /\ TimeLen(calls[i][4]) = self.output_chunk_length

\* The forward call was given tensors of the widths of the sample the module
\* was built from, and its blocks were split.
SampleWidths ==
    /\ pc = "forwarded" /\ fwd_vectors # NoneT
    /\ \A i \in 1..4 : fwd_x[i].w = self.train_sample[i].w

\* The column of `tensor` at position col (from 1), as a one-column tensor's rows.
ColumnOf(tensor, col) == [i \in 1..Len(tensor.rows) |-> <<tensor.rows[i][col]>>]

\* C22: on inputs of the module's widths, the encoder names are as many as
\* the columns of [past target, past covariates, historic future
\* covariates], the k-th of them is bound to column k of that block, which
\* is column k of the target, then of the past covariates, then of the
\* historic future covariates, under the name made for that column; no name
\* is bound twice; the same holds for the decoder names and the future
\* covariates.
C22_SplitRoundTrip ==
    SampleWidths =>
        LET enc == self.model.variables.time_varying_encoder_input
            dec == self.model.variables.time_varying_decoder_input
            nt == fwd_x[1].w
            np == fwd_x[2].w
            nh == fwd_x[3].w
            nf == fwd_x[4].w
            past == fwd_vectors.past
            future == fwd_vectors.future
        IN  /\ Len(enc) = nt + np + nh /\ Len(past) = nt + np + nh
            /\ Len(dec) = nf /\ Len(future) = nf
            /\ NoDuplicates([k \in 1..Len(past) |-> past[k].name])
            /\ NoDuplicates([k \in 1..Len(future) |-> future[k].name])
            /\ \A k \in 1..Len(past) :
                  /\ past[k].name = enc[k]
                  /\ past[k].vector.w = 1
                  /\ IF k <= nt
                     THEN /\ past[k].name = <<"target", k - 1>>
                          /\ past[k].vector.rows = ColumnOf(fwd_x[1], k)
                     ELSE IF k <= nt + np
                     THEN /\ past[k].name = <<"past_covariate", k - nt - 1>>
                          /\ past[k].vector.rows = ColumnOf(fwd_x[2], k - nt)
                     ELSE /\ past[k].name = <<"future_covariate", k - nt - np - 1>>
                          /\ past[k].vector.rows = ColumnOf(fwd_x[3], k - nt - np)
            /\ \A k \in 1..Len(future) :
                  /\ future[k].name = dec[k]
                  /\ future[k].name = <<"future_covariate", k - 1>>
                  /\ future[k].vector.w = 1
                  /\ future[k].vector.rows = ColumnOf(fwd_x[4], k)

C22_Witness ==
    /\ SampleWidths
    /\ fwd_x[1].w = 2 /\ fwd_x[2].w = 1 /\ fwd_x[3].w = 1 /\ fwd_x[4].w = 1
    /\ self.input_chunk_length = 1
    /\ Len(fwd_vectors.past) = 4
    /\ fwd_vectors.past[2] = [name |-> <<"target", 1>>,
                              vector |-> Tensor(1, 1, <<<<Cell("target", -1, 1, 0)>>>>)]
    /\ fwd_vectors.past[4] = [name |-> <<"future_covariate", 0>>,
                              vector |-> Tensor(1, 1, <<<<Cell("fut_cov", -1, 0, 0)>>>>)]
    /\ fwd_vectors.future[1].name = <<"future_covariate", 0>>

\* C23 (as claimed): create_mask returns one row per entry of lengths and
\* size columns; with inverse False entry (i, j) is True iff lengths[i] > j,
\* and with inverse True the mask is the element-wise inversion of that.
C23_CreateMaskDefault ==
    pc = "create_mask" =>
        /\ Len(cm_mask) = Len(encoder_lengths)
        /\ \A i \in 1..Len(cm_mask) :
              /\ Len(cm_mask[i]) = cm_size
              /\ \A j \in 1..cm_size :
                    cm_mask[i][j] = IF cm_inverse THEN ~(encoder_lengths[i] > j - 1)
                                    ELSE encoder_lengths[i] > j - 1

InRollout ==
    runs > 0 /\ pc \in {"first", "while", "spill", "update", "invoke", "concat", "done"}

SameStep(row, t) == \A c \in 1..Len(row) : row[c].t = t

\* The invocation input x hands over a past window of icl consecutive steps
\* that ends right before the first step of its future window, each of its
\* rows holding target and covariate values of one and the same step.
WindowsAdjoin(x, icl) ==
    /\ IsTensor(x[1]) /\ IsTensor(x[4]) /\ TimeLen(x[4]) > 0
    /\ TimeLen(x[1]) = icl
    /\ LET first_future == x[4].rows[1][1].t
       IN  \A i \in 1..icl :
              /\ SameStep(x[1].rows[i], first_future - icl + i - 1)
              /\ IsTensor(x[2]) => SameStep(x[2].rows[i], first_future - icl + i - 1)
              /\ IsTensor(x[3]) => SameStep(x[3].rows[i], first_future - icl + i - 1)

\* C27 (as claimed): at every invocation of a rollout of roll_size =
\* output_chunk_length over an ample horizon, the past window is
\* input_chunk_length consecutive steps ending right before the future
\* window, and each of its rows pairs target and covariates of one step.
C27_WindowsConsistent ==
    (runs > 0 /\ AmpleHorizon /\ FullRoll) =>
        \A i \in 1..Len(calls) : WindowsAdjoin(calls[i], self.input_chunk_length)

====
